---- MODULE Spec2Model ----
(***************************************************************************)
(* Model of the unique_contact provider function                           *)
(* (internal/provider/unique_contact_function.go) of                       *)
(* terraform-provider-webitel.                                             *)
(*                                                                         *)
(* A Go string is modelled as a sequence of one-character strings, so that *)
(* whitespace collapsing, the \D regular expression and strings.Join are   *)
(* computed character by character.  Field names (the keys of a csv row    *)
(* and of the variables map) are only ever compared, and are plain TLA+    *)
(* strings.  A Go map[string]T is a TLA+ function whose DOMAIN is the set  *)
(* of keys present.                                                        *)
(***************************************************************************)
EXTENDS Integers, Sequences, FiniteSets, TLC

(***************************************************************************)
(* Bounds of the model.                                                    *)
(***************************************************************************)
\* longest csv list drawn from Rows (the worked example is added as is)
MaxRecords == 3
\* longest raw destination value of the one-row calls that exercise normalization
MaxLen == 3

(***************************************************************************)
(* Characters and strings.                                                 *)
(***************************************************************************)
Digits == {"0", "1", "2", "3", "4", "5", "6", "7", "8", "9"}

\* unicode.IsSpace, restricted to the characters the model uses
WhiteSpace == {" ", "\t"}

\* the characters raw destination values are drawn from
Alphabet == {"1", "2", "+", "-", "a"}

\* the empty map: make(map[string]T)
EmptyMap == [x \in {} |-> x]

\* v[k] on a Go map[string]string: the zero value "" when k is absent
Get(v, k) == IF k \in DOMAIN v THEN v[k] ELSE <<>>

\* strings.Join(elems, sep)
RECURSIVE Join(_, _)
Join(elems, sep) ==
    IF elems = <<>> THEN <<>>
    ELSE IF Len(elems) = 1 THEN elems[1]
    ELSE elems[1] \o sep \o Join(Tail(elems), sep)

\* strings.Fields(in): the maximal runs of non-whitespace characters.
\* cur is the field being scanned, out the fields already closed.
RECURSIVE FieldsFrom(_, _, _)
FieldsFrom(in, cur, out) ==
    IF in = <<>>
    THEN IF cur = <<>> THEN out ELSE Append(out, cur)
    ELSE IF Head(in) \in WhiteSpace
         THEN FieldsFrom(Tail(in), <<>>, IF cur = <<>> THEN out ELSE Append(out, cur))
         ELSE FieldsFrom(Tail(in), Append(cur, Head(in)), out)

Fields(in) == FieldsFrom(in, <<>>, <<>>)

\* a slip: the input is split at every single whitespace character
\* (strings.Split(in, " ")), so empty fields survive
RECURSIVE SplitFrom(_, _, _)
SplitFrom(in, cur, out) ==
    IF in = <<>>
    THEN Append(out, cur)
    ELSE IF Head(in) \in WhiteSpace
         THEN SplitFrom(Tail(in), <<>>, Append(out, cur))
         ELSE SplitFrom(Tail(in), Append(cur, Head(in)), out)

stripSpacesSplit(in) == Join(SplitFrom(in, <<>>, <<>>), <<" ">>)

\* stripSpaces: strings.Join(strings.Fields(in), " ")
stripSpaces(in) == Join(Fields(in), <<" ">>)

\* a slip: the expression [^\d+], which lets a '+' of the input through
MatchKeepPlus(c) == c \notin Digits \cup {"+"}

\* destinationRegexp = `\D`: the characters the expression matches
destinationRegexp(c) == c \notin Digits

\* destinationRegexp.ReplaceAllString(src, ""): every match is deleted
RECURSIVE ReplaceAllString(_)
ReplaceAllString(src) ==
    IF src = <<>> THEN <<>>
    ELSE IF destinationRegexp(Head(src))
         THEN ReplaceAllString(Tail(src))
         ELSE <<Head(src)>> \o ReplaceAllString(Tail(src))

\* a slip: a value without digits is left empty
NormalizeDestinationUnlessEmpty(raw) ==
    IF ReplaceAllString(raw) = <<>> THEN <<>> ELSE <<"+">> \o ReplaceAllString(raw)

\* "+" + destinationRegexp.ReplaceAllString(raw, "")
NormalizeDestination(raw) == <<"+">> \o ReplaceAllString(raw)

(***************************************************************************)
(* Inputs: the csv rows and csv_mapping objects the function is called on. *)
(***************************************************************************)
\* the rows of the worked example (examples/functions/unique_contact)
ExampleRow(name, code, dest, label) ==
    [name |-> name, code |-> code, destination |-> dest, foo_label |-> label,
     foo_variable |-> <<"f","o","o">>, bar_variable |-> <<"b","a","r">>]

ExampleCsv ==
    << ExampleRow(<<"f","o","o","1">>, <<"1">>, <<"1","2","3">>, <<"l","o","c","a","l">>),
       ExampleRow(<<"f","o","o","1">>, <<"1">>, <<"4","5","6">>, <<"l","o","c","a","l">>),
       ExampleRow(<<"f","o","o","1">>, <<"2">>, <<"7","8","9">>, <<"o","t","h","e","r">>),
       ExampleRow(<<"b","a","r","1">>, <<"1">>, <<"1","2","3">>, <<"l","o","c","a","l">>) >>

ExampleMapping ==
    [name_field |-> "name", code_field |-> "code", destination_field |-> "destination",
     label_fields |-> <<"foo_label">>,
     variable_fields |-> <<"foo_variable", "bar_variable">>,
     group_by_fields |-> <<"name", "foo_variable">>]

\* a csv row with every column of the generic header
Row(name, code, dest, g, h, l, m, x) ==
    [name |-> name, code |-> code, destination |-> dest,
     g |-> g, h |-> h, l |-> l, m |-> m, x |-> x]

\* The rows the csv lists are built from: rows that share group_by values
\* under different names, destinations that differ only in punctuation,
\* repeated labels, a changing variable value, a name with whitespace to
\* collapse, a blank and an empty name, and a row without most columns
\* whose name equals a group_by value of the others.
Rows ==
    { Row(<<"a">>, <<"1">>, <<"1","2">>, <<"u">>, <<>>, <<"p">>, <<"q">>, <<"v">>),
      Row(<<"a"," ","b">>, <<"2">>, <<"1","-","2">>, <<>>, <<"u">>, <<"p">>, <<"r">>, <<"w">>),
      Row(<<" ","a","\t"," ","b"," ">>, <<"1">>, <<"+","2","1">>, <<"u">>, <<>>,
          <<"r">>, <<"p">>, <<"v">>),
      Row(<<" ">>, <<"2">>, <<"2","1">>, <<"u">>, <<>>, <<"s">>, <<"s">>, <<"z">>),
      Row(<<>>, <<"1">>, <<"3">>, <<>>, <<"u">>, <<"s">>, <<>>, <<"z">>),
      [name |-> <<"u">>] }

Mapping(groupBy, labels, variables) ==
    [name_field |-> "name", code_field |-> "code", destination_field |-> "destination",
     label_fields |-> labels, variable_fields |-> variables,
     group_by_fields |-> groupBy]

Mappings ==
    { Mapping(<<>>, <<"l">>, <<>>),
      Mapping(<<"g", "h">>, <<"l", "m">>, <<"x">>),
      Mapping(<<"name", "g">>, <<"code", "destination">>, <<"name", "x">>) }

\* every string of at most n characters of Alphabet
RECURSIVE RawDestinations(_)
RawDestinations(n) ==
    IF n = 0 THEN {<<>>}
    ELSE LET shorter == RawDestinations(n - 1)
         IN  shorter \cup {Append(s, c) : s \in {t \in shorter : Len(t) = n - 1}, c \in Alphabet}

\* every list of at most n rows
RECURSIVE CsvLists(_)
CsvLists(n) ==
    IF n = 0 THEN {<<>>}
    ELSE LET shorter == CsvLists(n - 1)
         IN  shorter \cup {Append(c, r) : c \in {s \in shorter : Len(s) = n - 1}, r \in Rows}

\* The conversions at the head of Run that can end it in an error, in the
\* order Run makes them: req.Arguments.Get, csv.ElementsAs and listToLabels
\* on group_by_fields, label_fields and variable_fields.  "none": the
\* arguments convert.
Faults == {"arguments", "elements", "group_by_fields", "label_fields", "variable_fields"}

\* the argument pairs of the calls: csv and csv_mapping, either of which
\* the configuration may give as null, and the conversion they fail, if any
Calls ==
    [csvNull : {FALSE}, mappingNull : {FALSE}, csv : CsvLists(MaxRecords), mapping : Mappings,
     fault : {"none"}]
    \cup {[csvNull |-> FALSE, mappingNull |-> FALSE, csv |-> ExampleCsv,
           mapping |-> ExampleMapping, fault |-> "none"]}
    \cup [csvNull : {TRUE}, mappingNull : BOOLEAN, csv : {<<>>}, mapping : Mappings,
          fault : {"none"}]
    \cup [csvNull : {FALSE}, mappingNull : {TRUE}, csv : CsvLists(1),
          mapping : {Mapping(<<>>, <<>>, <<>>)}, fault : {"none"}]
    \cup {[csvNull |-> FALSE, mappingNull |-> FALSE,
           csv |-> <<[name |-> <<"n">>, code |-> <<"1">>, destination |-> raw]>>,
           mapping |-> Mapping(<<>>, <<>>, <<>>), fault |-> "none"] :
              raw \in RawDestinations(MaxLen)}
    \cup [csvNull : {FALSE}, mappingNull : {FALSE}, csv : CsvLists(1),
          mapping : {Mapping(<<"g", "h">>, <<"l", "m">>, <<"x">>)}, fault : Faults]
    \cup [csvNull : {FALSE}, mappingNull : {FALSE}, csv : CsvLists(1),
          mapping : {Mapping(<<"g">>, <<>>, <<"x", "x">>)}, fault : {"none"}]

(***************************************************************************)
(* State of one call of UniqueContactFunction.Run.                         *)
(***************************************************************************)
VARIABLES
    req,        \* the arguments of the call: csv, csv_mapping and which are null
    pc,         \* position in Run: "call", "loop", "locked", "emit", "done", "failed"
    i,          \* index of the record the loop examines next (1-based)
    key,        \* the key of the record being accumulated while pc = "locked"
    seen,       \* seen: group key -> contact
    held,       \* the mutexes that are locked
    contacts,   \* contacts: group key -> finished object, filled by the second loop
    resp,       \* resp.Error and resp.Result
    warnings,   \* the tflog.Warn calls made so far
    again,      \* whether the host has called the function a second time
    prev,       \* resp of the first call, once the second has begun
    state,      \* the contact resource in Terraform's state (resp.State of the last handler)
    diags,      \* resp.Diagnostics of the last handler: the summaries of its errors
    call,       \* the last handler call: its plan, prior state, request and the API's reply
    workers     \* the workers running the loop body, one per record: position and locals

vars == <<req, pc, i, key, seen, held, contacts, resp, warnings, again, prev,
          state, diags, call, workers>>

elements == req.csv
data == req.mapping

\* resp before Run has written to it
NoResponse == [Error |-> "", Result |-> EmptyMap, ResultSet |-> FALSE]

\* the text of the error Terraform reports for a null argument
NullArgumentError == "argument must not be null"

\* resp.Error after the conversion named by fault has failed
ConversionError(fault) ==
    CASE fault = "arguments" -> "req.Arguments.Get: error"
      [] fault = "elements" -> "csv.ElementsAs: error"
      [] OTHER -> "invalid label value"

(***************************************************************************)
(* The first loop of Run: one record at a time.                            *)
(***************************************************************************)
\* name := stripSpaces(v[data.NameField.ValueString()])
RecordName(v) == stripSpaces(Get(v, data.name_field))

\* a slip: every group_by value is appended, the empty ones too
KeepKeyFieldAlways(value) == TRUE

\* if v[k] != "": the group_by values that are appended to keyFields
KeepKeyField(value) == value # <<>>

\* keyFields: the kept values of groupByFields, in declared order
RECURSIVE KeyFields(_, _)
KeyFields(v, groupByFields) ==
    IF groupByFields = <<>> THEN <<>>
    ELSE LET value == Get(v, Head(groupByFields))
         IN  (IF KeepKeyField(value) THEN <<value>> ELSE <<>>)
             \o KeyFields(v, Tail(groupByFields))

\* a slip: the key fields joined with a space
KeySeparatorSpace == <<" ">>

\* the separator of strings.Join(keyFields, "-")
KeySeparator == <<"-">>

\* a slip: the key is the name whatever the group_by values are
RecordKeyNameOnly(v) == RecordName(v)

\* key := name, or strings.Join(keyFields, "-") when keyFields is not empty
RecordKey(v) ==
    LET keyFields == KeyFields(v, data.group_by_fields)
    IN  IF Len(keyFields) # 0 THEN Join(keyFields, KeySeparator) ELSE RecordName(v)

\* labels: the value of every label field, in declared order
RecordLabels(v) ==
    [k \in 1..Len(data.label_fields) |-> Get(v, data.label_fields[k])]

\* d := destination{code, "+" + digits of the destination value}
RecordDestination(v) ==
    [code |-> Get(v, data.code_field),
     destination |-> NormalizeDestination(Get(v, data.destination_field))]

\* contact{mu: &sync.Mutex{}, name: name, ...}: a new group with a new mutex
NewContact(name, mu) ==
    [mu |-> mu, name |-> name, destinations |-> <<>>, labels |-> <<>>,
     variables |-> EmptyMap]

\* a slip: the name of the record at hand replaces the name of the group
MergedNameLast(c, name) == name

\* name: seen[key].name, the name the group was created with
MergedName(c, name) == c.name

\* tflog.Warn(ctx, "variable already exists, overwriting", {"key": field})
OverwriteWarning(field) ==
    [msg |-> "variable already exists, overwriting", i |-> -1, key |-> field]

\* tflog.Warn(ctx, "element has empty name", {"i": i, "name": name}); i is 0-based
EmptyNameWarning(index) ==
    [msg |-> "element has empty name", i |-> index - 1, key |-> ""]

\* a slip: an empty value is not stored
StoreVariableSkipEmpty(variables, field, value) ==
    IF value = <<>> THEN variables
    ELSE [f \in DOMAIN variables \cup {field} |->
             IF f = field THEN value ELSE variables[f]]

\* a slip: an entry that exists is kept instead of overwritten
StoreVariableKeepFirst(variables, field, value) ==
    IF field \in DOMAIN variables THEN variables
    ELSE [f \in DOMAIN variables \cup {field} |->
             IF f = field THEN value ELSE variables[f]]

\* c.variables[field] = v[field]
StoreVariable(variables, field, value) ==
    [f \in DOMAIN variables \cup {field} |-> IF f = field THEN value ELSE variables[f]]

\* a slip: the warning is given only when the value changes
WarnsOverwriteIfChanged(variables, field, value) ==
    field \in DOMAIN variables /\ variables[field] # value

\* if _, ok := c.variables[field]; ok: the entry exists, whatever it holds
WarnsOverwrite(variables, field, value) == field \in DOMAIN variables

\* for _, field := range variableFields: warn if the entry exists, then store.
\* Gives the map and the warnings after the loop.
RECURSIVE SetVariables(_, _, _, _)
SetVariables(variables, warns, variableFields, v) ==
    IF variableFields = <<>> THEN [variables |-> variables, warns |-> warns]
    ELSE LET field == Head(variableFields)
         IN  SetVariables(StoreVariable(variables, field, Get(v, field)),
                          IF WarnsOverwrite(variables, field, Get(v, field))
                          THEN Append(warns, OverwriteWarning(field))
                          ELSE warns,
                          Tail(variableFields), v)

(***************************************************************************)
(* The second loop of Run: one object per group.                           *)
(***************************************************************************)
\* a slip: seenLabels declared before the loop over seen, so that it still
\* holds the labels of the groups emitted earlier
SeenLabelsShared(emitted) ==
    UNION {{emitted[n].labels[k] : k \in 1..Len(emitted[n].labels)} : n \in DOMAIN emitted}

\* seenLabels := make(map[string]bool, len(c.labels)): made anew for every
\* group, whatever groups were emitted before it
SeenLabels(emitted) == {}

\* a slip: the test is left out and every label is appended
IsNewLabelAlways(label, seenLabels) == TRUE

\* if !seenLabels[label]
IsNewLabel(label, seenLabels) == label \notin seenLabels

\* the labels loop: a label is appended unless seenLabels holds it
RECURSIVE UniqueLabels(_, _, _)
UniqueLabels(labels, seenLabels, out) ==
    IF labels = <<>> THEN out
    ELSE LET label == Head(labels)
         IN  UniqueLabels(Tail(labels), seenLabels \cup {label},
                          IF IsNewLabel(label, seenLabels) THEN Append(out, label) ELSE out)

\* a slip: the map is keyed by code and destination together
SeenDestinationKeyPair(dest) == <<dest.code, dest.destination>>

\* seenDestination[dest.destination]: the map is keyed by the normalized
\* destination alone
SeenDestinationKey(dest) == <<dest.destination>>

\* the destinations loop: an entry is appended unless seenDestination holds
\* its key
RECURSIVE UniqueDestinations(_, _, _)
UniqueDestinations(destinations, seenDestination, out) ==
    IF destinations = <<>> THEN out
    ELSE LET dest == Head(destinations)
         IN  UniqueDestinations(Tail(destinations),
                                seenDestination \cup {SeenDestinationKey(dest)},
                                IF SeenDestinationKey(dest) \notin seenDestination
                                THEN Append(out, dest) ELSE out)

\* types.SetValueMust(destinationSchema(), destinations): a set value
SetValue(list) == {list[k] : k \in 1..Len(list)}

\* contacts[n] = types.ObjectValueMust(schema.AttrTypes, {...})
ContactObject(c, emitted) ==
    [name |-> c.name,
     destinations |-> SetValue(UniqueDestinations(c.destinations, {}, <<>>)),
     labels |-> UniqueLabels(c.labels, SeenLabels(emitted), <<>>),
     variables |-> c.variables]

(***************************************************************************)
(* The contact resource: the values of ContactResourceModel, of the API's  *)
(* contact and of the API's input, and the conversions between them.       *)
(***************************************************************************)
\* http.StatusOK and http.StatusNotFound
StatusOK == 200
StatusNotFound == 404

\* types.String, types.List, types.Map and types.Set: null, or a value
NullString == [IsNull |-> TRUE, Value |-> ""]
StringValue(s) == [IsNull |-> FALSE, Value |-> s]
NullList == [IsNull |-> TRUE, Elements |-> <<>>]
ListValue(l) == [IsNull |-> FALSE, Elements |-> l]
NullMap == [IsNull |-> TRUE, Elements |-> EmptyMap]
MapValue(m) == [IsNull |-> FALSE, Elements |-> m]
NullSet == [IsNull |-> TRUE, Elements |-> {}]
PhonesValue(set) == [IsNull |-> FALSE, Elements |-> set]

\* a Go slice of the API's models: nil, or its elements
Nil == [IsNil |-> TRUE, Data |-> <<>>]
NilMap == [IsNil |-> TRUE, Data |-> EmptyMap]
NilSet == [IsNil |-> TRUE, Data |-> {}]
Slice(elems) == [IsNil |-> FALSE, Data |-> elems]

\* ContactResourcePhones
Phone(code, destination) == [Code |-> code, Destination |-> destination]

\* The configured attributes of a contact.  ID and ETag are computed: they
\* are "" (ValueString of an unknown value) where the plan does not know them.
Contact(name, about, labels, variables, phones) ==
    [ID |-> "", ETag |-> "", Name |-> name, About |-> about, Labels |-> labels,
     Variables |-> variables, Phones |-> phones]

BaseContact ==
    Contact(<<"a">>, StringValue("x"), ListValue(<<"l">>), MapValue("k" :> "v"),
            PhonesValue({Phone("1", "+12")}))

\* the configurations: the base one, one differing from it in each single
\* attribute, one with two phones and one with every optional attribute null
Configs ==
    { BaseContact,
      [BaseContact EXCEPT !.Name = <<"a", " ", " ", "b">>],
      [BaseContact EXCEPT !.About = NullString],
      [BaseContact EXCEPT !.Labels = NullList],
      [BaseContact EXCEPT !.Variables = NullMap],
      [BaseContact EXCEPT !.Phones = NullSet],
      [BaseContact EXCEPT !.Phones = PhonesValue({Phone("1", "+12"), Phone("2", "+3")})],
      Contact(<<"a">>, NullString, NullList, NullMap, NullSet) }

\* the id and etag of the contacts the API returns
Versions == {[ID |-> "i1", Etag |-> "e1"], [ID |-> "i2", Etag |-> "e2"]}

\* What a call of the API client returns: an error (a runtime.APIError with
\* its code), or a response with its status code and the id and etag of its
\* payload.
Replies ==
    [Err : {TRUE}, Code : {StatusNotFound, 500}, ID : {""}, Etag : {""}]
    \cup {[Err |-> FALSE, Code |-> code, ID |-> v.ID, Etag |-> v.Etag] :
             code \in {StatusOK, StatusNotFound, 500}, v \in Versions}

NoReply == [Err |-> FALSE, Code |-> 0, ID |-> "", Etag |-> ""]

\* Create: Type.ID: phone.Code.ValueString(), Number: phone.Destination.ValueStringPointer()
CreatePhoneNumber(phone) == [TypeID |-> phone.Code, Number |-> phone.Destination]

\* Update: Type.ID: phone.Code.ValueString(), Number: phone.Code.ValueStringPointer()
UpdatePhoneNumber(phone) == [TypeID |-> phone.Code, Number |-> phone.Code]

\* input.Labels, input.Variables: set only if the attribute is not null
InputSlice(attribute, nil) ==
    IF attribute.IsNull THEN nil ELSE Slice(attribute.Elements)

\* Create: input := &models.WebitelContactsInputContact{...}
CreateInput(plan) ==
    [About |-> plan.About.Value,
     Name |-> stripSpaces(plan.Name),
     Labels |-> InputSlice(plan.Labels, Nil),
     Variables |-> InputSlice(plan.Variables, NilMap),
     Phones |-> IF plan.Phones.IsNull THEN NilSet
                ELSE Slice({CreatePhoneNumber(phone) : phone \in plan.Phones.Elements})]

\* Update: input := &models.ContactsUpdateContactParamsBody{...}
UpdateInput(plan) ==
    [About |-> plan.About.Value,
     Name |-> stripSpaces(plan.Name),
     Labels |-> InputSlice(plan.Labels, Nil),
     Variables |-> InputSlice(plan.Variables, NilMap),
     Phones |-> IF plan.Phones.IsNull THEN NilSet
                ELSE Slice({UpdatePhoneNumber(phone) : phone \in plan.Phones.Elements})]

NoInput == [About |-> "", Name |-> <<>>, Labels |-> Nil, Variables |-> NilMap, Phones |-> NilSet]

\* the request a handler sends: the client method, the Etag parameter and
\* the Input parameter (Create and Update)
Request(op, etag, input) == [Op |-> op, Etag |-> etag, Input |-> input]
NoRequest == Request("none", "", NoInput)

\* httpResp.GetPayload(): the contact the API holds for an input, under the
\* id and etag of the reply
Payload(input, reply) ==
    [ID |-> reply.ID, Etag |-> reply.Etag, Name |-> input.Name, About |-> input.About,
     Labels |-> input.Labels, Variables |-> input.Variables, Phones |-> input.Phones]

NoPayload == Payload(NoInput, NoReply)

\* contactToTF
contactToTF(in) ==
    [ID |-> in.ID,
     ETag |-> in.Etag,
     Name |-> in.Name,
     About |-> IF in.About # "" THEN StringValue(in.About) ELSE NullString,
     Labels |-> IF in.Labels.IsNil THEN NullList ELSE ListValue(in.Labels.Data),
     Variables |-> IF in.Variables.IsNil THEN NullMap ELSE MapValue(in.Variables.Data),
     Phones |-> IF in.Phones.IsNil THEN NullSet
                ELSE PhonesValue({Phone(v.TypeID, v.Number) : v \in in.Phones.Data})]

\* the input that, stored by the API, reads back as the model m
StoredInput(m) ==
    [About |-> m.About.Value,
     Name |-> m.Name,
     Labels |-> InputSlice(m.Labels, Nil),
     Variables |-> InputSlice(m.Variables, NilMap),
     Phones |-> IF m.Phones.IsNull THEN NilSet
                ELSE Slice({CreatePhoneNumber(phone) : phone \in m.Phones.Elements})]

\* the resource in Terraform's state: absent, or a ContactResourceModel
NoState == [Exists |-> FALSE, Data |-> Contact(<<>>, NullString, NullList, NullMap, NullSet)]
Stored(m) == [Exists |-> TRUE, Data |-> m]

\* the record of a handler call
Call(op, plan, prior, request, reply, payload) ==
    [Op |-> op, Plan |-> plan, Prior |-> prior, Request |-> request, Reply |-> reply,
     Payload |-> payload]
NoCall == Call("none", NoState.Data, NoState, NoRequest, NoReply, NoPayload)

(***************************************************************************)
(* Initial state and the steps of Run.                                     *)
(***************************************************************************)
Init ==
    /\ req \in Calls
    /\ pc = "call"
    /\ i = 1
    /\ key = <<>>
    /\ seen = EmptyMap
    /\ held = {}
    /\ contacts = EmptyMap
    /\ resp = NoResponse
    /\ warnings = <<>>
    /\ again = FALSE
    /\ prev = NoResponse
    /\ state = NoState
    /\ diags = {}
    /\ call = NoCall
    /\ workers = <<>>

\* a slip: the parameters declared with AllowNullValue: true
AllowNullValueSet(parameter) == TRUE

\* function.ListParameter{Name: "csv"} and function.ObjectParameter{Name:
\* "csv_mapping"} leave AllowNullValue at its zero value
AllowNullValue(parameter) == FALSE

\* a null argument of a parameter that does not allow null
NullRejected ==
    \/ req.csvNull /\ ~AllowNullValue("csv")
    \/ req.mappingNull /\ ~AllowNullValue("csv_mapping")

\* A null argument of such a parameter ends the call in an error before
\* any statement of Run touches a record.
RunNullArgument ==
    /\ pc = "call"
    /\ NullRejected
    /\ resp' = [resp EXCEPT !.Error = NullArgumentError]
    /\ pc' = "failed"
    /\ UNCHANGED <<req, i, key, seen, held, contacts, warnings, again, prev, state, diags, call, workers>>

\* One of the conversions at the head of Run fails: resp.Error is set and
\* Run returns.
RunConversionError ==
    /\ pc = "call"
    /\ ~NullRejected
    /\ req.fault \in Faults
    /\ resp' = [resp EXCEPT !.Error = ConversionError(req.fault)]
    /\ pc' = "failed"
    /\ UNCHANGED <<req, i, key, seen, held, contacts, warnings, again, prev, state, diags, call, workers>>

\* The arguments are decoded and seen := make(map[string]contact).
RunBegin ==
    /\ pc = "call"
    /\ ~NullRejected
    /\ req.fault = "none"
    /\ seen' = EmptyMap
    /\ i' = 1
    /\ pc' = "loop"
    /\ UNCHANGED <<req, key, held, contacts, resp, warnings, again, prev, state, diags, call, workers>>

\* a slip: break instead of continue
AfterEmptyNameBreak(index) == Len(elements) + 1

\* continue: the loop goes on with the next record
AfterEmptyName(index) == index + 1

\* if name == "": warn and continue
SkipEmptyName ==
    /\ pc = "loop"
    /\ i <= Len(elements)
    /\ RecordName(elements[i]) = <<>>
    /\ warnings' = Append(warnings, EmptyNameWarning(i))
    /\ i' = AfterEmptyName(i)
    /\ UNCHANGED <<req, pc, key, seen, held, contacts, resp, again, prev, state, diags, call, workers>>

\* The key is derived, the group is created if seen has none for the key,
\* and seen[key].mu.Lock() is passed.
LockGroup ==
    /\ pc = "loop"
    /\ i <= Len(elements)
    /\ LET v == elements[i]
           name == RecordName(v)
           k == RecordKey(v)
           created == IF k \in DOMAIN seen THEN seen
                      ELSE [n \in DOMAIN seen \cup {k} |->
                               IF n = k
                               THEN NewContact(name, Cardinality(DOMAIN seen) + 1)
                               ELSE seen[n]]
       IN  /\ name # <<>>
           /\ created[k].mu \notin held
           /\ seen' = created
           /\ held' = held \cup {created[k].mu}
           /\ key' = k
    /\ pc' = "locked"
    /\ UNCHANGED <<req, i, contacts, resp, warnings, again, prev, state, diags, call, workers>>

\* a slip: the mutex is left locked
UnlockSkipped(locked, mu) == locked

\* seen[key].mu.Unlock()
Unlock(locked, mu) == locked \ {mu}

\* Under the lock: the record's destination and labels are appended, its
\* variables stored, the contact written back and the mutex unlocked.
Accumulate ==
    /\ pc = "locked"
    /\ LET v == elements[i]
           set == SetVariables(seen[key].variables, <<>>, data.variable_fields, v)
           c == [mu |-> seen[key].mu,
                 name |-> MergedName(seen[key], RecordName(v)),
                 destinations |-> Append(seen[key].destinations, RecordDestination(v)),
                 labels |-> seen[key].labels \o RecordLabels(v),
                 variables |-> set.variables]
       IN  /\ seen' = [seen EXCEPT ![key] = c]
           /\ held' = Unlock(held, c.mu)
           /\ warnings' = warnings \o set.warns
    /\ key' = <<>>
    /\ i' = i + 1
    /\ pc' = "loop"
    /\ UNCHANGED <<req, contacts, resp, again, prev, state, diags, call, workers>>

\* The range over elements is exhausted: contacts := make(map[string]attr.Value)
EndLoop ==
    /\ pc = "loop"
    /\ i > Len(elements)
    /\ contacts' = EmptyMap
    /\ pc' = "emit"
    /\ UNCHANGED <<req, i, key, seen, held, resp, warnings, again, prev, state, diags, call, workers>>

\* for n, c := range seen: Go visits the keys of a map in no fixed order
EmitContact ==
    /\ pc = "emit"
    /\ \E n \in DOMAIN seen \ DOMAIN contacts :
          contacts' = [m \in DOMAIN contacts \cup {n} |->
                          IF m = n THEN ContactObject(seen[n], contacts)
                          ELSE contacts[m]]
    /\ UNCHANGED <<req, pc, i, key, seen, held, resp, warnings, again, prev, state, diags, call, workers>>

\* resp.Result.Set(ctx, types.MapValueMust(returnSchema(), contacts))
SetResult ==
    /\ pc = "emit"
    /\ DOMAIN contacts = DOMAIN seen
    /\ resp' = [resp EXCEPT !.Result = contacts, !.ResultSet = TRUE]
    /\ pc' = "done"
    /\ UNCHANGED <<req, i, key, seen, held, contacts, warnings, again, prev, state, diags, call, workers>>

\* The host evaluates the same expression a second time: a new call of Run
\* on the same arguments, with nothing kept from the first call but its
\* response, for comparison.
Rerun ==
    /\ pc \in {"done", "failed"}
    /\ ~again
    /\ again' = TRUE
    /\ prev' = resp
    /\ resp' = NoResponse
    /\ pc' = "call"
    /\ i' = 1
    /\ key' = <<>>
    /\ seen' = EmptyMap
    /\ held' = {}
    /\ contacts' = EmptyMap
    /\ warnings' = <<>>
    /\ UNCHANGED <<req, state, diags, call, workers>>

Next ==
    \/ RunNullArgument
    \/ RunConversionError
    \/ RunBegin
    \/ SkipEmptyName
    \/ LockGroup
    \/ Accumulate
    \/ EndLoop
    \/ EmitContact
    \/ SetResult
    \/ Rerun

Spec == Init /\ [][Next]_vars

(***************************************************************************)
(* The handlers of the contact resource.  Each step is one whole handler:  *)
(* it builds its request, receives the reply of the API and leaves         *)
(* resp.State and resp.Diagnostics.                                        *)
(***************************************************************************)
CreateError == "Unable to Create Resource"
ReadError == "Unable to Refresh Resource"
UpdateError == "Unable to Update Resource"
DeleteError == "Unable to Delete Resource"

\* Create: the plan has no id and no etag yet
Create ==
    /\ ~state.Exists
    /\ \E plan \in Configs, reply \in Replies :
          LET input == CreateInput(plan)
              payload == Payload(input, reply)
              failed == reply.Err \/ reply.Code # StatusOK
          IN  /\ call' = Call("Create", plan, state, Request("Create", "", input), reply,
                              IF reply.Err THEN NoPayload ELSE payload)
              /\ diags' = IF failed THEN {CreateError} ELSE {}
              /\ state' = IF failed THEN state ELSE Stored(contactToTF(payload))
    /\ UNCHANGED <<req, pc, i, key, seen, held, contacts, resp, warnings, again, prev,
                   workers>>

\* Read: the request carries the etag of the state; an error that is an
\* APIError with code 404 removes the resource, and every error is reported
Read ==
    /\ state.Exists
    /\ \E reply \in Replies :
          LET payload == Payload(StoredInput(state.Data), reply)
          IN  /\ call' = Call("Read", state.Data, state,
                              Request("Read", state.Data.ETag, NoInput), reply,
                              IF reply.Err THEN NoPayload ELSE payload)
              /\ diags' = IF reply.Err THEN {ReadError} ELSE {}
              /\ state' = IF reply.Err
                          THEN IF reply.Code = StatusNotFound THEN NoState ELSE state
                          ELSE Stored(contactToTF(payload))
    /\ UNCHANGED <<req, pc, i, key, seen, held, contacts, resp, warnings, again, prev,
                   workers>>

\* a slip: every plan is taken as a change
ChangedAlways(plan, prior) == TRUE

\* update: some of About, Name, Labels, Variables, Phones is not Equal
Changed(plan, prior) ==
    \/ plan.About # prior.About
    \/ plan.Name # prior.Name
    \/ plan.Labels # prior.Labels
    \/ plan.Variables # prior.Variables
    \/ plan.Phones # prior.Phones

\* The plans Terraform can hand to Update for a configuration: the computed
\* id and etag are those of the state, or unknown when the plan differs
\* from the state.
UpdatePlans(config, prior) ==
    {[config EXCEPT !.ID = prior.ID, !.ETag = prior.ETag]}
    \cup (IF config.About # prior.About \/ config.Name # prior.Name
             \/ config.Labels # prior.Labels \/ config.Variables # prior.Variables
             \/ config.Phones # prior.Phones
          THEN {config} ELSE {})

\* if httpResp.IsCode(http.StatusOK) { AddError(...); return }
UpdateStatusRejected(code) == code = StatusOK

\* Update: newState := state; if update, the request carries plan.ETag
Update ==
    /\ state.Exists
    /\ \E config \in Configs :
          \E plan \in UpdatePlans(config, state.Data) :
             IF ~Changed(plan, state.Data)
             THEN /\ call' = Call("Update", plan, state, NoRequest, NoReply, NoPayload)
                  /\ diags' = {}
                  /\ state' = Stored(state.Data)
             ELSE \E reply \in Replies :
                     LET input == UpdateInput(plan)
                         payload == Payload(input, reply)
                         failed == reply.Err \/ UpdateStatusRejected(reply.Code)
                     IN  /\ call' = Call("Update", plan, state,
                                         Request("Update", plan.ETag, input), reply,
                                         IF reply.Err THEN NoPayload ELSE payload)
                         /\ diags' = IF failed THEN {UpdateError} ELSE {}
                         /\ state' = IF failed THEN state
                                     ELSE Stored(contactToTF(payload))
    /\ UNCHANGED <<req, pc, i, key, seen, held, contacts, resp, warnings, again, prev,
                   workers>>

\* a slip: only 200 is accepted
DeleteStatusAcceptedOnlyOK(code) == code = StatusOK

\* !(!httpResp.IsCode(http.StatusNotFound) && !httpResp.IsCode(http.StatusOK))
DeleteStatusAccepted(code) == code = StatusNotFound \/ code = StatusOK

\* Delete: the request carries the etag of the state; Terraform removes the
\* resource from the state when the handler reports no error
Delete ==
    /\ state.Exists
    /\ \E reply \in Replies :
          LET failed == reply.Err \/ ~DeleteStatusAccepted(reply.Code)
          IN  /\ call' = Call("Delete", state.Data, state,
                              Request("Delete", state.Data.ETag, NoInput), reply, NoPayload)
              /\ diags' = IF failed THEN {DeleteError} ELSE {}
              /\ state' = IF failed THEN state ELSE NoState
    /\ UNCHANGED <<req, pc, i, key, seen, held, contacts, resp, warnings, again, prev,
                   workers>>

\* the provider before the first handler call: no resource in the state
ContactInit ==
    /\ state = NoState
    /\ diags = {}
    /\ call = NoCall
    /\ workers = <<>>
    /\ req = [csvNull |-> FALSE, mappingNull |-> FALSE, csv |-> <<>>,
              mapping |-> Mapping(<<>>, <<>>, <<>>), fault |-> "none"]
    /\ pc = "idle"
    /\ i = 1
    /\ key = <<>>
    /\ seen = EmptyMap
    /\ held = {}
    /\ contacts = EmptyMap
    /\ resp = NoResponse
    /\ warnings = <<>>
    /\ again = FALSE
    /\ prev = NoResponse

ContactNext ==
    \/ Create
    \/ Read
    \/ Update
    \/ Delete

ContactSpec == ContactInit /\ [][ContactNext]_vars

(***************************************************************************)
(* The body of the record loop run by concurrent workers, one per record.  *)
(* A step of a worker is one statement of the body; the statements of      *)
(* different workers interleave.  seen and the mutexes are shared; name,   *)
(* key, ok and c are locals of the worker.                                 *)
(***************************************************************************)
MaxWorkers == 2

\* the locals of the worker of a record before its first statement
NewWorker ==
    [pc |-> "start", key |-> <<>>, ok |-> FALSE, created |-> FALSE,
     c |-> NewContact(<<>>, 0)]

\* all workers stop: the Go runtime ends the process with a fatal error
Fatal == [w \in DOMAIN workers |-> [workers[w] EXCEPT !.pc = "fatal"]]

WorkerFrame == <<req, pc, i, key, contacts, resp, again, prev, state, diags, call>>

\* name := stripSpaces(...); if name == "" { warn; continue }; key := ...
WorkerStart(w) ==
    /\ workers[w].pc = "start"
    /\ LET v == elements[w]
       IN  IF RecordName(v) = <<>>
           THEN /\ warnings' = Append(warnings, EmptyNameWarning(w))
                /\ workers' = [workers EXCEPT ![w].pc = "done"]
           ELSE /\ warnings' = warnings
                /\ workers' = [workers EXCEPT ![w].pc = "find", ![w].key = RecordKey(v)]
    /\ UNCHANGED <<seen, held>>
    /\ UNCHANGED WorkerFrame

\* _, ok := seen[key]
WorkerFind(w) ==
    /\ workers[w].pc = "find"
    /\ LET ok == workers[w].key \in DOMAIN seen
       IN  workers' = [workers EXCEPT ![w].ok = ok,
                                      ![w].pc = IF ok THEN "lock" ELSE "create"]
    /\ UNCHANGED <<seen, held, warnings>>
    /\ UNCHANGED WorkerFrame

\* if !ok { seen[key] = contact{mu: &sync.Mutex{}, name: name, ...} }: the
\* new mutex is named after the worker that makes it
WorkerCreate(w) ==
    /\ workers[w].pc = "create"
    /\ LET k == workers[w].key
       IN  seen' = [n \in DOMAIN seen \cup {k} |->
                       IF n = k THEN NewContact(RecordName(elements[w]), w) ELSE seen[n]]
    /\ workers' = [workers EXCEPT ![w].created = TRUE, ![w].pc = "lock"]
    /\ UNCHANGED <<held, warnings>>
    /\ UNCHANGED WorkerFrame

\* seen[key].mu.Lock(): waits while the mutex the group holds now is locked
WorkerLock(w) ==
    /\ workers[w].pc = "lock"
    /\ seen[workers[w].key].mu \notin held
    /\ held' = held \cup {seen[workers[w].key].mu}
    /\ workers' = [workers EXCEPT ![w].pc = "build"]
    /\ UNCHANGED <<seen, warnings>>
    /\ UNCHANGED WorkerFrame

\* labels, d, c := contact{mu: seen[key].mu, ..., append(seen[key].destinations, d), ...}
\* and the loop over variableFields
WorkerBuild(w) ==
    /\ workers[w].pc = "build"
    /\ LET v == elements[w]
           group == seen[workers[w].key]
           set == SetVariables(group.variables, <<>>, data.variable_fields, v)
           c == [mu |-> group.mu,
                 name |-> MergedName(group, RecordName(v)),
                 destinations |-> Append(group.destinations, RecordDestination(v)),
                 labels |-> group.labels \o RecordLabels(v),
                 variables |-> set.variables]
       IN  /\ workers' = [workers EXCEPT ![w].c = c, ![w].pc = "store"]
           /\ warnings' = warnings \o set.warns
    /\ UNCHANGED <<seen, held>>
    /\ UNCHANGED WorkerFrame

\* seen[key] = c
WorkerStore(w) ==
    /\ workers[w].pc = "store"
    /\ seen' = [seen EXCEPT ![workers[w].key] = workers[w].c]
    /\ workers' = [workers EXCEPT ![w].pc = "unlock"]
    /\ UNCHANGED <<held, warnings>>
    /\ UNCHANGED WorkerFrame

\* seen[key].mu.Unlock(): the mutex the group holds now; unlocking a mutex
\* that is not locked is a fatal error of the Go runtime
WorkerUnlock(w) ==
    /\ workers[w].pc = "unlock"
    /\ LET mu == seen[workers[w].key].mu
       IN  IF mu \in held
           THEN /\ held' = Unlock(held, mu)
                /\ workers' = [workers EXCEPT ![w].pc = "done"]
           ELSE /\ held' = held
                /\ workers' = Fatal
    /\ UNCHANGED <<seen, warnings>>
    /\ UNCHANGED WorkerFrame

\* seen is a Go map without a lock of its own: while one worker is at a
\* statement that writes it and another at a statement that reads or
\* writes it, the runtime may end the process ("concurrent map writes",
\* "concurrent map read and map write")
WorkerMapRace ==
    /\ \E w1, w2 \in DOMAIN workers :
          /\ w1 # w2
          /\ workers[w1].pc \in {"create", "store"}
          /\ workers[w2].pc \in {"find", "create", "lock", "build", "store", "unlock"}
    /\ workers' = Fatal
    /\ UNCHANGED <<seen, held, warnings>>
    /\ UNCHANGED WorkerFrame

\* seen := make(map[string]contact), and a worker for each record of a call
\* whose arguments convert
WorkersInit ==
    /\ req \in [csvNull : {FALSE}, mappingNull : {FALSE}, csv : CsvLists(MaxWorkers),
                mapping : Mappings, fault : {"none"}]
    /\ workers = [w \in 1..Len(req.csv) |-> NewWorker]
    /\ pc = "workers"
    /\ i = 1
    /\ key = <<>>
    /\ seen = EmptyMap
    /\ held = {}
    /\ contacts = EmptyMap
    /\ resp = NoResponse
    /\ warnings = <<>>
    /\ again = FALSE
    /\ prev = NoResponse
    /\ state = NoState
    /\ diags = {}
    /\ call = NoCall

WorkersNext ==
    \/ \E w \in DOMAIN workers : WorkerStart(w)
    \/ \E w \in DOMAIN workers : WorkerFind(w)
    \/ \E w \in DOMAIN workers : WorkerCreate(w)
    \/ \E w \in DOMAIN workers : WorkerLock(w)
    \/ \E w \in DOMAIN workers : WorkerBuild(w)
    \/ \E w \in DOMAIN workers : WorkerStore(w)
    \/ \E w \in DOMAIN workers : WorkerUnlock(w)
    \/ WorkerMapRace

WorkersSpec == WorkersInit /\ [][WorkersNext]_vars

(***************************************************************************)
(* What the properties are stated with.  None of these definitions is used *)
(* by the steps above: they describe the records from the outside.         *)
(***************************************************************************)
\* the elements of s at the positions P, in increasing order of position
PickAt(s, P) ==
    [k \in 1..Cardinality(P) |-> s[CHOOSE p \in P : Cardinality({q \in P : q < p}) = k - 1]]

\* raw with every run of whitespace collapsed to one space and trimmed: a
\* whitespace character stays (as a space) only when it follows a
\* non-whitespace character and a non-whitespace character comes later
Collapsed(raw) ==
    LET blank(p) == raw[p] \in WhiteSpace
        keep == {p \in 1..Len(raw) :
                    \/ ~blank(p)
                    \/ /\ p > 1
                       /\ ~blank(p - 1)
                       /\ \E q \in (p + 1)..Len(raw) : ~blank(q)}
        spaced == [p \in 1..Len(raw) |-> IF blank(p) THEN " " ELSE raw[p]]
    IN  PickAt(spaced, keep)

IsDigitChar(c) == c \in Digits
NonEmpty(value) == value # <<>>

\* '+' followed by the digit characters of raw in their original order
PlusDigits(raw) == <<"+">> \o SelectSeq(raw, IsDigitChar)

\* the normalized name of record j
NameOf(j) == Collapsed(Get(elements[j], data.name_field))

\* the non-empty group_by values of record j, in declared order
GroupValues(j) ==
    SelectSeq([k \in 1..Len(data.group_by_fields) |->
                  Get(elements[j], data.group_by_fields[k])], NonEmpty)

\* the grouping key of record j
KeyOf(j) ==
    LET values == GroupValues(j)
    IN  IF values = <<>> THEN NameOf(j) ELSE Join(values, <<"-">>)

\* the records the loop has dealt with, and those of them with a name
Examined == 1..(i - 1)
Named == {j \in Examined : NameOf(j) # <<>>}

\* the records of group k accumulated so far, as a set and in input order
Members(k) == {j \in Examined : NameOf(j) # <<>> /\ KeyOf(j) = k}
MemberSeq(k) ==
    LET members == Members(k)
        IsMember(j) == j \in members
    IN  SelectSeq([j \in 1..Len(elements) |-> j], IsMember)

\* the result of a call that has returned without an error
Returned == pc = "done" /\ resp.ResultSet
Result == resp.Result

(***************************************************************************)
(* C1: for the worked example (rows foo1/1/123, foo1/1/456, foo1/2/789,    *)
(* bar1/1/123, grouped by name and foo_variable) the result has exactly    *)
(* the keys 'foo1-foo' and 'bar1-foo', with the names, labels, variables   *)
(* and destinations the example lists.                                     *)
(***************************************************************************)
ExampleVariables ==
    [foo_variable |-> <<"f","o","o">>, bar_variable |-> <<"b","a","r">>]

ExampleResult ==
    (<<"f","o","o","1","-","f","o","o">> :>
        [name |-> <<"f","o","o","1">>,
         labels |-> << <<"l","o","c","a","l">>, <<"o","t","h","e","r">> >>,
         variables |-> ExampleVariables,
         destinations |-> {[code |-> <<"1">>, destination |-> <<"+","1","2","3">>],
                           [code |-> <<"1">>, destination |-> <<"+","4","5","6">>],
                           [code |-> <<"2">>, destination |-> <<"+","7","8","9">>]}])
    @@
    (<<"b","a","r","1","-","f","o","o">> :>
        [name |-> <<"b","a","r","1">>,
         labels |-> << <<"l","o","c","a","l">> >>,
         variables |-> ExampleVariables,
         destinations |-> {[code |-> <<"1">>, destination |-> <<"+","1","2","3">>]}])

IsExampleCall == req.csv = ExampleCsv /\ req.mapping = ExampleMapping

C1_WorkedExample ==
    (pc = "done" /\ IsExampleCall) => (resp.ResultSet /\ resp.Error = "" /\ Result = ExampleResult)

C1_Witness ==
    /\ Returned
    /\ IsExampleCall
    /\ Cardinality(DOMAIN Result) = 2

(***************************************************************************)
(* C2: a record with a non-empty normalized name has as grouping key its   *)
(* non-empty group_by values joined with '-' in declared order, or its     *)
(* normalized name when there is none; the groups are exactly these keys,  *)
(* and a group holds one destination entry for each record with its key,   *)
(* in input order, and for no other record.                                *)
(***************************************************************************)
C2_GroupingKey ==
    /\ DOMAIN seen = {KeyOf(j) : j \in Named} \cup
                     (IF pc = "locked" THEN {KeyOf(i)} ELSE {})
    /\ pc = "locked" => key = KeyOf(i)
    /\ \A k \in DOMAIN seen :
          LET members == MemberSeq(k)
          IN  /\ Len(seen[k].destinations) = Len(members)
              /\ \A r \in 1..Len(members) :
                    seen[k].destinations[r] =
                        [code |-> Get(elements[members[r]], data.code_field),
                         destination |->
                             PlusDigits(Get(elements[members[r]], data.destination_field))]
    /\ Returned => DOMAIN Result = {KeyOf(j) : j \in Named}

\* two records with different names merged under a key made of group_by
\* values, one of which skips an empty value, next to a group keyed by name
C2_Witness ==
    /\ Returned
    /\ \E j1, j2 \in Named :
          /\ j1 < j2
          /\ KeyOf(j1) = KeyOf(j2)
          /\ NameOf(j1) # NameOf(j2)
          /\ Len(GroupValues(j2)) < Len(data.group_by_fields)
          /\ Len(GroupValues(j2)) > 0
          /\ KeyOf(j1) \in DOMAIN Result
    /\ \E j3 \in Named : GroupValues(j3) = <<>> /\ Len(data.group_by_fields) > 0

(***************************************************************************)
(* C3: the name of every aggregated contact is the whitespace-normalized   *)
(* name of the first record, in input order, of its group; later records   *)
(* of the group never change it.                                           *)
(***************************************************************************)
FirstMember(k) ==
    LET members == Members(k)
    IN  CHOOSE j \in members : \A j2 \in members : j <= j2

C3_NameOfFirstRecord ==
    /\ \A k \in DOMAIN seen :
          LET members == Members(k)
          IN  seen[k].name =
                 IF members # {}
                 THEN NameOf(CHOOSE j \in members : \A j2 \in members : j <= j2)
                 ELSE NameOf(i)
    /\ Returned => \A k \in DOMAIN Result : Result[k].name = NameOf(FirstMember(k))

\* a group whose first record has a name with whitespace to collapse and
\* whose later record has another name
C3_Witness ==
    /\ Returned
    /\ \E k \in DOMAIN Result :
          \E j \in Members(k) :
             /\ j # FirstMember(k)
             /\ NameOf(j) # NameOf(FirstMember(k))
             /\ Get(elements[FirstMember(k)], data.name_field) # NameOf(FirstMember(k))
             /\ Result[k].name = NameOf(FirstMember(k))

(***************************************************************************)
(* C4: the labels of every group are the values of label_fields, in        *)
(* declared order, of the group's records in input order, with every       *)
(* repeated value removed and the first occurrence kept in place: no       *)
(* label appears twice and none is missing.                                *)
(***************************************************************************)
\* the label values of group k before any is removed: record after record,
\* field after field
RawLabels(k) ==
    LET nf == Len(data.label_fields)
        members == MemberSeq(k)
    IN  [p \in 1..(Len(members) * nf) |->
            Get(elements[members[((p - 1) \div nf) + 1]],
                data.label_fields[((p - 1) % nf) + 1])]

\* s without the elements that occurred earlier in s
FirstOccurrences(s) ==
    PickAt(s, {p \in 1..Len(s) : \A q \in 1..(p - 1) : s[q] # s[p]})

C4_LabelsFirstOccurrence ==
    Returned =>
        \A k \in DOMAIN Result :
           LET labels == Result[k].labels
               raw == RawLabels(k)
           IN  /\ labels = FirstOccurrences(raw)
               /\ \A a, b \in 1..Len(labels) : a # b => labels[a] # labels[b]
               /\ {labels[a] : a \in 1..Len(labels)} = {raw[p] : p \in 1..Len(raw)}

\* label values a, b, a, c across the records of a group give a, b, c
C4_Witness ==
    /\ Returned
    /\ \E k \in DOMAIN Result :
          LET raw == RawLabels(k)
          IN  /\ Len(raw) = 4
              /\ raw[1] = raw[3]
              /\ raw[2] # raw[1]
              /\ raw[4] \notin {raw[1], raw[2]}
              /\ Cardinality(Members(k)) > 1
              /\ Result[k].labels = <<raw[1], raw[2], raw[4]>>

(***************************************************************************)
(* C5: within an aggregated contact no two destinations have the same      *)
(* normalized destination string; the records of a group whose destination *)
(* values normalize to one string give exactly one entry, and its code is  *)
(* the code of the first of these records in input order.                  *)
(***************************************************************************)
\* the normalized destination and the code of record j
DestinationOf(j) == PlusDigits(Get(elements[j], data.destination_field))
CodeOf(j) == Get(elements[j], data.code_field)

\* the first record of group k whose destination normalizes to d
FirstWith(k, d) ==
    LET with == {j \in Members(k) : DestinationOf(j) = d}
    IN  CHOOSE j \in with : \A j2 \in with : j <= j2

C5_DestinationsUnique ==
    Returned =>
        \A k \in DOMAIN Result :
           /\ \A d1, d2 \in Result[k].destinations :
                 d1.destination = d2.destination => d1 = d2
           /\ {d.destination : d \in Result[k].destinations} =
                 {DestinationOf(j) : j \in Members(k)}
           /\ \A d \in Result[k].destinations :
                 d.code = CodeOf(FirstWith(k, d.destination))

\* two records of one group with destinations that differ only in
\* punctuation and with different codes: one entry, with the first code
C5_Witness ==
    /\ Returned
    /\ \E k \in DOMAIN Result :
          \E j1, j2 \in Members(k) :
             /\ j1 < j2
             /\ DestinationOf(j1) = DestinationOf(j2)
             /\ Get(elements[j1], data.destination_field) #
                   Get(elements[j2], data.destination_field)
             /\ CodeOf(j1) # CodeOf(j2)
             /\ j1 = FirstWith(k, DestinationOf(j1))
             /\ Result[k].destinations =
                   {[code |-> CodeOf(j1), destination |-> DestinationOf(j1)]}

(***************************************************************************)
(* C6: for every group and every field of variable_fields the variable     *)
(* value is the value the field has in the last record of the group in     *)
(* input order; an earlier record's value never survives a later record.   *)
(***************************************************************************)
LastMember(k) ==
    LET members == Members(k)
    IN  CHOOSE j \in members : \A j2 \in members : j2 <= j

VariableFields == {data.variable_fields[n] : n \in 1..Len(data.variable_fields)}

C6_VariablesLastWrite ==
    /\ \A k \in DOMAIN seen :
          LET members == Members(k)
              last == CHOOSE j \in members : \A j2 \in members : j2 <= j
          IN  members # {} =>
                 \A f \in VariableFields :
                    /\ f \in DOMAIN seen[k].variables
                    /\ seen[k].variables[f] = Get(elements[last], f)
    /\ Returned =>
          \A k \in DOMAIN Result :
             LET last == LastMember(k)
             IN  \A f \in VariableFields :
                    /\ f \in DOMAIN Result[k].variables
                    /\ Result[k].variables[f] = Get(elements[last], f)

\* two records of one group give a variable field different values: the
\* value of the later one is returned
C6_Witness ==
    /\ Returned
    /\ \E k \in DOMAIN Result :
          \E f \in VariableFields :
             \E j \in Members(k) :
                /\ j < LastMember(k)
                /\ Get(elements[j], f) # Get(elements[LastMember(k)], f)
                /\ Result[k].variables[f] = Get(elements[LastMember(k)], f)

(***************************************************************************)
(* C7: a record whose name is empty or only whitespace changes nothing in  *)
(* the accumulated state: the step that examines it creates no group and   *)
(* adds no destination, label or variable to any group, whatever its       *)
(* group_by values are.                                                    *)
(***************************************************************************)
IsBlank(raw) == \A p \in 1..Len(raw) : raw[p] \in WhiteSpace

AtBlankRecord ==
    /\ pc = "loop"
    /\ i <= Len(elements)
    /\ IsBlank(Get(elements[i], data.name_field))

C7_BlankNameChangesNothing ==
    [][AtBlankRecord =>
          /\ seen' = seen
          /\ held' = held
          /\ contacts' = contacts
          /\ resp' = resp
          /\ pc' = "loop"
          /\ i' = i + 1]_vars

\* a whitespace-only record whose group_by values name an existing group
\* has been passed, and the group holds what it held before
C7_Witness ==
    /\ Returned
    /\ \E j \in Examined :
          /\ IsBlank(Get(elements[j], data.name_field))
          /\ Get(elements[j], data.name_field) # <<>>
          /\ GroupValues(j) # <<>>
          /\ Join(GroupValues(j), <<"-">>) \in DOMAIN Result
          /\ j > 1
          /\ Cardinality(Result[Join(GroupValues(j), <<"-">>)].destinations) = 1
          /\ Len(elements) = 2

(***************************************************************************)
(* C8: a call with a null csv or a null csv_mapping ends in the error      *)
(* 'argument must not be null' and sets no result; no record is processed. *)
(***************************************************************************)
C8_NullArgumentRejected ==
    (req.csvNull \/ req.mappingNull) =>
        /\ pc \in {"call", "failed"}
        /\ pc = "failed" => resp.Error = NullArgumentError
        /\ ~resp.ResultSet
        /\ resp.Result = EmptyMap
        /\ seen = EmptyMap
        /\ contacts = EmptyMap
        /\ warnings = <<>>
        /\ i = 1

\* the call has failed on a null csv_mapping although csv holds a record
C8_Witness ==
    /\ pc = "failed"
    /\ req.mappingNull
    /\ ~req.csvNull
    /\ Len(req.csv) > 0
    /\ resp.Error = NullArgumentError

(***************************************************************************)
(* C9: the normalized destination of a raw value is '+' followed by        *)
(* exactly the digit characters of the raw value in their original order,  *)
(* and normalizing a normalized value returns it unchanged.                *)
(***************************************************************************)
C9_NormalizedDestination ==
    /\ \A k \in DOMAIN seen :
          LET members == MemberSeq(k)
          IN  \A r \in 1..Len(seen[k].destinations) :
                 LET d == seen[k].destinations[r].destination
                     raw == Get(elements[members[r]], data.destination_field)
                 IN  /\ d = PlusDigits(raw)
                     /\ d[1] = "+"
                     /\ \A p \in 2..Len(d) : d[p] \in Digits
                     /\ NormalizeDestination(d) = d
    /\ Returned =>
          \A k \in DOMAIN Result :
             \A d \in Result[k].destinations :
                NormalizeDestination(d.destination) = d.destination

\* a raw value that starts with '+' and holds a digit and another
\* non-digit has been normalized
C9_Witness ==
    /\ Returned
    /\ \E j \in Named :
          LET raw == Get(elements[j], data.destination_field)
          IN  /\ Len(raw) = 3
              /\ raw[1] = "+"
              /\ \E p \in 2..3 : raw[p] \in Digits
              /\ \E p \in 2..3 : raw[p] \notin Digits \cup {"+"}
              /\ \E d \in Result[KeyOf(j)].destinations :
                    /\ d.destination = PlusDigits(raw)
                    /\ Len(d.destination) = 2

(***************************************************************************)
(* C10: two calls on the same records and the same mapping return the      *)
(* same result (key set and, for each key, name, labels, variables and     *)
(* destinations), whatever order the map of groups is iterated in.         *)
(***************************************************************************)
C10_SameResultOnRerun ==
    (pc = "done" /\ again) => (prev.ResultSet /\ resp = prev)

\* a second call has returned a result of several groups, at least two of
\* which have labels
C10_Witness ==
    /\ Returned
    /\ again
    /\ \E k1, k2 \in DOMAIN Result :
          /\ k1 # k2
          /\ Result[k1].labels # <<>>
          /\ Result[k2].labels # <<>>
          /\ \E a \in 1..Len(Result[k1].labels), b \in 1..Len(Result[k2].labels) :
                Result[k1].labels[a] = Result[k2].labels[b]

(***************************************************************************)
(* C11: Run either fails before any record is accumulated and sets no      *)
(* result, or processes every record and sets the complete result: every   *)
(* error is set before the loop starts, and a result that is set accounts  *)
(* for every record of csv, never for a prefix of them.                    *)
(***************************************************************************)
AllRecords == 1..Len(elements)

C11_FailEarlyOrComplete ==
    /\ resp.Error # "" =>
          /\ pc = "failed"
          /\ ~resp.ResultSet
          /\ resp.Result = EmptyMap
          /\ seen = EmptyMap
          /\ contacts = EmptyMap
          /\ i = 1
    /\ pc = "failed" => resp.Error # ""
    /\ (req.fault \in Faults \/ req.csvNull \/ req.mappingNull) => pc \in {"call", "failed"}
    /\ resp.ResultSet =>
          /\ pc = "done"
          /\ resp.Error = ""
          /\ i = Len(elements) + 1
          /\ DOMAIN Result = {KeyOf(j) : j \in {r \in AllRecords : NameOf(r) # <<>>}}
          /\ \A j \in AllRecords :
                NameOf(j) # <<>> =>
                   /\ KeyOf(j) \in DOMAIN Result
                   /\ \E d \in Result[KeyOf(j)].destinations :
                         d.destination = DestinationOf(j)

\* the call has failed on the last conversion before the loop, with a
\* record in csv that has a name, and nothing has been accumulated
C11_Witness ==
    /\ pc = "failed"
    /\ req.fault = "variable_fields"
    /\ resp.Error # ""
    /\ Len(elements) > 0
    /\ NameOf(1) # <<>>
    /\ seen = EmptyMap
    /\ ~resp.ResultSet

(***************************************************************************)
(* C12: empty-name rows and variable overwrites never interrupt the batch: *)
(* the step that meets one sets no error and goes on with the next record  *)
(* in order, and an overwrite warning is emitted exactly when the group's  *)
(* variable mapping already holds an entry for the field, also when the    *)
(* new value equals the old one.                                           *)
(***************************************************************************)
\* the positions of variable_fields whose field the group already holds
\* when record i stores it: an earlier record of the group has stored every
\* field, and an earlier position of variable_fields has stored its own
OverwritingPositions ==
    LET fields == data.variable_fields
        members == Members(key)
        Holds(n) == members # {} \/ \E m \in 1..(n - 1) : fields[m] = fields[n]
    IN  SelectSeq([n \in 1..Len(fields) |-> n], Holds)

ExpectedOverwriteWarnings ==
    LET positions == OverwritingPositions
    IN  [r \in 1..Len(positions) |->
            [msg |-> OverwriteWarning(data.variable_fields[positions[r]]).msg,
             i |-> -1,
             key |-> data.variable_fields[positions[r]]]]

C12_WarningsNeverInterrupt ==
    [][/\ AtBlankRecord =>
             /\ resp' = resp
             /\ resp.Error = ""
             /\ pc' = "loop"
             /\ i' = i + 1
             /\ warnings' = Append(warnings, EmptyNameWarning(i))
       /\ pc = "locked" =>
             /\ resp' = resp
             /\ resp.Error = ""
             /\ pc' = "loop"
             /\ i' = i + 1
             /\ warnings' = warnings \o ExpectedOverwriteWarnings]_vars

\* the call has returned a result after a blank record and, later, a record
\* that stored into its group's variables a value equal to the one held:
\* both warnings were emitted and the later record is in the result
C12_Witness ==
    /\ Returned
    /\ resp.Error = ""
    /\ \E b \in Examined, j1 \in Named, j2 \in Named :
          /\ IsBlank(Get(elements[b], data.name_field))
          /\ j1 < j2
          /\ b < j2
          /\ KeyOf(j1) = KeyOf(j2)
          /\ \E f \in VariableFields :
                /\ Get(elements[j1], f) = Get(elements[j2], f)
                /\ Get(elements[j1], f) # <<>>
                /\ \E w \in 1..Len(warnings) : warnings[w] = OverwriteWarning(f)
          /\ \E w \in 1..Len(warnings) : warnings[w] = EmptyNameWarning(b)
          /\ KeyOf(j2) \in DOMAIN Result

(***************************************************************************)
(* C13: in every aggregated contact the key set of variables is exactly    *)
(* the declared variable_fields, with the empty string for a field the     *)
(* group's records lack, and no other key.                                 *)
(***************************************************************************)
C13_VariableKeys ==
    /\ \A k \in DOMAIN seen :
          Members(k) # {} => DOMAIN seen[k].variables = VariableFields
    /\ Returned =>
          \A k \in DOMAIN Result :
             LET members == Members(k)
             IN  /\ DOMAIN Result[k].variables = VariableFields
                 /\ \A f \in VariableFields :
                       (\A j \in members : f \notin DOMAIN elements[j]) =>
                           Result[k].variables[f] = <<>>

\* a returned contact none of whose records has a declared variable field:
\* the field is a key of its variables, with the empty string
C13_Witness ==
    /\ Returned
    /\ \E k \in DOMAIN Result :
          \E f \in VariableFields :
             /\ \A j \in Members(k) : f \notin DOMAIN elements[j]
             /\ f \in DOMAIN Result[k].variables
             /\ Result[k].variables[f] = <<>>
    /\ \E k \in DOMAIN Result :
          \E f \in VariableFields : Result[k].variables[f] # <<>>

(***************************************************************************)
(* C14: a record that lacks a mapped field (code, destination, a label, a  *)
(* variable or a group_by field) is processed as if it held the empty      *)
(* string and never sets an error: it joins its group and contributes a    *)
(* destination with code '' or destination exactly '+', an empty label and *)
(* an empty variable value.                                                *)
(***************************************************************************)
Lacks(j, field) == field \notin DOMAIN elements[j]

\* the position of record j among the records of its group
PositionIn(members, j) == CHOOSE r \in 1..Len(members) : members[r] = j

C14_MissingFieldIsEmpty ==
    /\ \A j \in Named :
          LET k == KeyOf(j)
              members == MemberSeq(k)
              r == PositionIn(members, j)
              nl == Len(data.label_fields)
          IN  /\ resp.Error = ""
              /\ k \in DOMAIN seen
              /\ (\A n \in 1..Len(data.group_by_fields) : Lacks(j, data.group_by_fields[n]))
                    => k = NameOf(j)
              /\ Lacks(j, data.code_field) => seen[k].destinations[r].code = <<>>
              /\ Lacks(j, data.destination_field) =>
                    seen[k].destinations[r].destination = <<"+">>
              /\ \A n \in 1..nl :
                    Lacks(j, data.label_fields[n]) =>
                        seen[k].labels[(r - 1) * nl + n] = <<>>
              /\ \A f \in VariableFields :
                    (Lacks(j, f) /\ r = Len(members)) => seen[k].variables[f] = <<>>
    /\ Returned =>
          \A j \in Named :
             /\ Lacks(j, data.destination_field) =>
                   \E d \in Result[KeyOf(j)].destinations : d.destination = <<"+">>
             /\ (Lacks(j, data.code_field) /\ j = FirstWith(KeyOf(j), DestinationOf(j))) =>
                   \E d \in Result[KeyOf(j)].destinations :
                      d.code = <<>> /\ d.destination = DestinationOf(j)

\* a record with nothing but a name has joined, by its name, the group two
\* other records form by a group_by value, as that group's last record
C14_Witness ==
    /\ Returned
    /\ resp.Error = ""
    /\ \E j \in Named :
          LET k == KeyOf(j)
          IN  /\ DOMAIN elements[j] = {"name"}
              /\ Len(data.group_by_fields) > 0
              /\ Len(data.label_fields) > 0
              /\ VariableFields # {}
              /\ j = LastMember(k)
              /\ Cardinality(Members(k)) > 1
              /\ [code |-> <<>>, destination |-> <<"+">>] \in Result[k].destinations
              /\ \A f \in VariableFields : Result[k].variables[f] = <<>>
              /\ \E n \in 1..Len(Result[k].labels) : Result[k].labels[n] = <<>>

(***************************************************************************)
(* The contact resource: the last handler call.                            *)
(***************************************************************************)
\* the last handler sent a request to the API
Sent == call.Request # NoRequest

\* the API answered the last request without an error and with status 200
Succeeded == Sent /\ ~call.Reply.Err /\ call.Reply.Code = StatusOK

\* two models agree on every configured attribute
SameAttributes(a, b) ==
    /\ a.About = b.About
    /\ a.Name = b.Name
    /\ a.Labels = b.Labels
    /\ a.Variables = b.Variables
    /\ a.Phones = b.Phones

(***************************************************************************)
(* C15: Update returns 'Unable to Update Resource' if the status of the    *)
(* API's response is not 200, and on 200 it returns no error and stores    *)
(* the contact of the response, its new etag included, in the state.       *)
(***************************************************************************)
C15_UpdateStatus ==
    (call.Op = "Update" /\ Sent /\ ~call.Reply.Err) =>
        /\ call.Reply.Code # StatusOK => UpdateError \in diags
        /\ call.Reply.Code = StatusOK =>
              /\ diags = {}
              /\ state = Stored(contactToTF(call.Payload))
              /\ state.Data.ETag = call.Reply.Etag

\* Update has sent a change, the API has answered 200 with a new etag, and
\* the handler has reported the error and kept the prior state
C15_Witness ==
    /\ call.Op = "Update"
    /\ Succeeded
    /\ call.Reply.Etag # call.Prior.Data.ETag
    /\ diags = {UpdateError}
    /\ state = call.Prior

(***************************************************************************)
(* C16: when the API answers a Read with 404, Read removes the resource    *)
(* from the state and returns without adding an error diagnostic.          *)
(***************************************************************************)
C16_ReadNotFound ==
    (call.Op = "Read" /\ call.Reply.Err /\ call.Reply.Code = StatusNotFound) =>
        /\ ~state.Exists
        /\ diags = {}

\* Read has met a 404: the resource is removed and the error is reported
C16_Witness ==
    /\ call.Op = "Read"
    /\ call.Reply.Err
    /\ call.Reply.Code = StatusNotFound
    /\ call.Prior.Exists
    /\ ~state.Exists
    /\ diags = {ReadError}

(***************************************************************************)
(* C17: when the plan's about, name, labels, variables and phones all      *)
(* equal the prior state, Update sends no request and writes the prior     *)
(* state back unchanged, id and etag included.                             *)
(***************************************************************************)
C17_UnchangedUpdateSendsNothing ==
    (call.Op = "Update" /\ SameAttributes(call.Plan, call.Prior.Data)) =>
        /\ ~Sent
        /\ call.Reply = NoReply
        /\ diags = {}
        /\ state = call.Prior
        /\ state.Data.ID = call.Prior.Data.ID
        /\ state.Data.ETag = call.Prior.Data.ETag

\* Update was called with a plan equal to a state that holds phones, labels
\* and variables: nothing was sent and the state is the prior one
C17_Witness ==
    /\ call.Op = "Update"
    /\ SameAttributes(call.Plan, call.Prior.Data)
    /\ ~call.Prior.Data.Phones.IsNull
    /\ ~call.Prior.Data.Labels.IsNull
    /\ ~call.Prior.Data.Variables.IsNull
    /\ call.Prior.Data.ETag # ""
    /\ ~Sent
    /\ state = call.Prior

(***************************************************************************)
(* C18: for the same phones Create and Update send the same phone entries: *)
(* the type ID of an entry is the code and its number is the destination.  *)
(***************************************************************************)
C18_SamePhoneEntries ==
    (call.Op \in {"Create", "Update"} /\ Sent /\ ~call.Plan.Phones.IsNull) =>
        /\ ~call.Request.Input.Phones.IsNil
        /\ call.Request.Input.Phones.Data =
              {[TypeID |-> phone.Code, Number |-> phone.Destination] :
                  phone \in call.Plan.Phones.Elements}
        /\ call.Request.Input.Phones = CreateInput(call.Plan).Phones
        /\ call.Request.Input.Phones = UpdateInput(call.Plan).Phones

\* Update has sent, for a phone with code 1 and destination +12, an entry
\* whose number is the code
C18_Witness ==
    /\ call.Op = "Update"
    /\ Sent
    /\ Phone("1", "+12") \in call.Plan.Phones.Elements
    /\ [TypeID |-> "1", Number |-> "1"] \in call.Request.Input.Phones.Data
    /\ [TypeID |-> "1", Number |-> "+12"] \notin call.Request.Input.Phones.Data

(***************************************************************************)
(* C19: after any sequence of Create, Read, Update and Delete, every       *)
(* request of Read, Update and Delete carries the etag that the most       *)
(* recent successful operation stored in the state, and each successful    *)
(* Create, Read or changing Update replaces the stored id and etag with    *)
(* those of the API's response.                                            *)
(***************************************************************************)
C19_EtagThreaded ==
    /\ (call.Op \in {"Read", "Update", "Delete"} /\ Sent) =>
          call.Request.Etag = call.Prior.Data.ETag
    /\ (call.Op \in {"Create", "Read", "Update"} /\ Succeeded) =>
          /\ state.Exists
          /\ state.Data.ID = call.Reply.ID
          /\ state.Data.ETag = call.Reply.Etag

\* Update has sent a change with an empty etag although the state held one
C19_Witness ==
    /\ call.Op = "Update"
    /\ Sent
    /\ call.Prior.Data.ETag # ""
    /\ call.Request.Etag = ""

(***************************************************************************)
(* C20: Delete returns 'Unable to Delete Resource' exactly when the API    *)
(* call fails or the status of its response is neither 200 nor 404; a 404  *)
(* response counts as success.                                             *)
(***************************************************************************)
C20_DeleteStatus ==
    call.Op = "Delete" =>
        /\ Sent
        /\ (DeleteError \in diags) <=>
              (call.Reply.Err \/ call.Reply.Code \notin {StatusOK, StatusNotFound})
        /\ DeleteError \notin diags => (diags = {} /\ ~state.Exists)
        /\ DeleteError \in diags => state = call.Prior
        /\ (~call.Reply.Err /\ call.Reply.Code = StatusNotFound) => diags = {}

\* Delete has received a 404 response and has reported no error
C20_Witness ==
    /\ call.Op = "Delete"
    /\ ~call.Reply.Err
    /\ call.Reply.Code = StatusNotFound
    /\ diags = {}
    /\ ~state.Exists
    /\ call.Prior.Exists

(***************************************************************************)
(* C22: in the sequential record loop every Lock of a group's mutex is     *)
(* followed by an Unlock of that same mutex before the next record is      *)
(* examined: a group keeps one mutex for the whole run, a record skipped   *)
(* for an empty name acquires no lock, no mutex is locked while already    *)
(* held, and no mutex is held when the loop ends, so that the loop ends    *)
(* after one pass over the records.                                        *)
(***************************************************************************)
\* the keys of the records with a name that the loop has accumulated, in
\* input order
AccumulatedKeys ==
    LET IsNamed(r) == r.named
        examined == SelectSeq([j \in 1..(i - 1) |->
                                  [named |-> NameOf(j) # <<>>, key |-> KeyOf(j)]], IsNamed)
    IN  [p \in 1..Len(examined) |-> examined[p].key]

C22_LockThenUnlock ==
    /\ pc # "locked" => held = {}
    /\ pc = "locked" =>
          /\ key \in DOMAIN seen
          /\ held = {seen[key].mu}
          /\ NameOf(i) # <<>>
          /\ i <= Len(elements)
    /\ (pc = "loop" /\ i <= Len(elements)) => ENABLED (SkipEmptyName \/ LockGroup)
    /\ LET keys == AccumulatedKeys
       IN  \A p \in 1..Len(keys) :
              (\A q \in 1..(p - 1) : keys[q] # keys[p]) =>
                  seen[keys[p]].mu = Cardinality({keys[q] : q \in 1..p})
    /\ \A k1, k2 \in DOMAIN seen : k1 # k2 => seen[k1].mu # seen[k2].mu
    /\ pc \in {"loop", "locked"} => i \in 1..(Len(elements) + 1)
    /\ pc \in {"emit", "done"} => i = Len(elements) + 1

\* the loop has ended with no mutex held after locking the mutex of one
\* group for two records, with a record without a name examined between
\* the two
C22_Witness ==
    /\ pc = "emit"
    /\ held = {}
    /\ \E k \in DOMAIN seen :
          /\ Cardinality(Members(k)) = 2
          /\ seen[k].mu = 1
          /\ \E j \in Examined :
                /\ NameOf(j) = <<>>
                /\ FirstMember(k) < j
                /\ j < LastMember(k)

(***************************************************************************)
(* C23: the key set of the result is exactly the set of grouping keys      *)
(* derived from the records with a non-empty normalized name, and every    *)
(* aggregated contact has at least one destination and at most as many     *)
(* destinations as its group has records.                                  *)
(***************************************************************************)
C23_KeysAndDestinationCount ==
    Returned =>
        /\ DOMAIN Result = {KeyOf(j) : j \in {r \in AllRecords : NameOf(r) # <<>>}}
        /\ \A k \in DOMAIN Result :
              LET members == Members(k)
                  n == Cardinality(Result[k].destinations)
              IN  /\ n >= 1
                  /\ n <= Cardinality(members)

\* a returned contact with more than one destination and fewer than its
\* group has records
C23_Witness ==
    /\ Returned
    /\ \E k \in DOMAIN Result :
          /\ Cardinality(Result[k].destinations) > 1
          /\ Cardinality(Result[k].destinations) < Cardinality(Members(k))

(***************************************************************************)
(* C21: if the body of the record loop is run by concurrent workers, one   *)
(* per record, the mutex of the group serializes accumulation so that no   *)
(* update is lost: for two records with the same key, under every          *)
(* interleaving, the destinations and labels of both are in the group and  *)
(* the group is created only once.                                         *)
(***************************************************************************)
\* every worker has run the body to its end
WorkersDone == workers # <<>> /\ \A w \in DOMAIN workers : workers[w].pc = "done"

\* the workers whose record has a name and the key k
WorkersOf(k) == {w \in DOMAIN workers : NameOf(w) # <<>> /\ KeyOf(w) = k}

C21_NoLostUpdate ==
    WorkersDone =>
        \A w1, w2 \in DOMAIN workers :
           (w1 # w2 /\ NameOf(w1) # <<>> /\ NameOf(w2) # <<>> /\ KeyOf(w1) = KeyOf(w2)) =>
               LET k == KeyOf(w1)
                   group == seen[k]
                   members == WorkersOf(k)
               IN  /\ Len(group.destinations) = Cardinality(members)
                   /\ \A w \in {w1, w2} :
                         \E r \in 1..Len(group.destinations) :
                            group.destinations[r] =
                               [code |-> CodeOf(w), destination |-> DestinationOf(w)]
                   /\ Len(group.labels) = Cardinality(members) * Len(data.label_fields)
                   /\ \A w \in {w1, w2} :
                         \A n \in 1..Len(data.label_fields) :
                            \E r \in 1..Len(group.labels) :
                               group.labels[r] = Get(elements[w], data.label_fields[n])
                   /\ Cardinality({w \in members : workers[w].created}) = 1

\* both workers of two records with one key have found no group and have
\* created it, and at the end the group holds the destination and labels
\* of one record alone
C21_Witness ==
    /\ WorkersDone
    /\ held = {}
    /\ \E w1, w2 \in DOMAIN workers :
          /\ w1 # w2
          /\ NameOf(w1) # <<>>
          /\ KeyOf(w1) = KeyOf(w2)
          /\ NameOf(w2) # <<>>
          /\ workers[w1].created
          /\ workers[w2].created
          /\ Len(seen[KeyOf(w1)].destinations) = 1
          /\ Len(data.label_fields) > 0
          /\ Len(seen[KeyOf(w1)].labels) = Len(data.label_fields)

====
